---- MODULE Spec2Model ----
(***************************************************************************)
(* Detached-JWS verify middleware (src/src/verify.rs) and the file-backed  *)
(* buffering stream (src/src/buffering.rs).                                *)
(*                                                                         *)
(* Detached-JWS sign middleware (src/src/sign.rs).                         *)
(*                                                                         *)
(* Four specifications share the module:                                   *)
(*   SpecBuf  - one FileBufferingStream polled by a consumer and dropped,  *)
(*              with I/O faults on the spill file;                         *)
(*   Spec     - one request going through verify::Middleware::call;        *)
(*   SpecTwo  - two requests in flight through one verify middleware,      *)
(*              interleaved at the suspension points of call;              *)
(*   SpecSign - one response going through sign::Middleware::call.         *)
(***************************************************************************)
EXTENDS Integers, Sequences, FiniteSets, TLC

\* ------------------------------------------------------------------ bounds
\* most items (chunks or errors) the raw inner stream yields before its end
MaxChunks == 3
\* replay passes a consumer makes after the write phase
MaxPasses == 1

\* ------------------------------------------------------------------ helpers
Min(a, b) == IF a < b THEN a ELSE b

\* Option<usize>::None of buffer_limit
NoLimit == -1

\* the bytes first+1 .. first+n, in order: every position of a body holds a
\* different byte, so reordering, loss and duplication are all visible
Iota(first, n) == [i \in 1..n |-> first + i]

\* an item of the raw inner stream: Some(Ok(bytes)) or Some(Err(e))
OkItem(bytes) == [ok |-> TRUE, bytes |-> bytes]
ErrItem == [ok |-> FALSE, bytes |-> <<>>]

\* the items of a raw stream whose chunk lengths are lens (-1: an Err item);
\* the chunks cut the body 1, 2, 3, ... in order
RECURSIVE ItemsFrom(_, _)
ItemsFrom(lens, first) ==
    IF lens = <<>> THEN <<>>
    ELSE IF Head(lens) < 0 THEN <<ErrItem>> \o ItemsFrom(Tail(lens), first)
    ELSE <<OkItem(Iota(first, Head(lens)))>>
             \o ItemsFrom(Tail(lens), first + Head(lens))

RECURSIVE SeqsUpTo(_, _)
SeqsUpTo(S, n) ==
    IF n = 0 THEN {<<>>}
    ELSE LET shorter == SeqsUpTo(S, n - 1)
         IN  shorter \cup {Append(s, x) : s \in {t \in shorter : Len(t) = n - 1}, x \in S}

\* the chunk lengths tried: empty, one byte, two bytes; -1 stands for an Err item
ChunkLens == 0..2

ItemSeqs == {ItemsFrom(lens, 0) : lens \in SeqsUpTo({-1} \cup ChunkLens, MaxChunks)}

\* concatenation of the Ok chunks of a raw stream
RECURSIVE ConcatOk(_)
ConcatOk(items) ==
    IF items = <<>> THEN <<>>
    ELSE (IF Head(items).ok THEN Head(items).bytes ELSE <<>>) \o ConcatOk(Tail(items))

\* ------------------------------------------------------------------ I/O faults
\* what the file system does to one call: nothing, or an error at one point,
\* after k bytes of the failing write_all / read_exact went through
NoFault == [point |-> "none", k |-> 0]
Fault(p, k) == [point |-> p, k |-> k]

\* Write::write_all at the handle's cursor: data replaces/extends the content
WriteAt(content, pos, data) ==
    SubSeq(content, 1, pos) \o data
        \o SubSeq(content, pos + Len(data) + 1, Len(content))

\* ------------------------------------------------------------------ FileBufferingStream
\* the sizes a builder is configured with: threshold(v), produce_block_size(v)
\* and buffer_limit(v) take any usize, 0 included (buffering.rs:52-65)
Thresholds == 0..2
BlockSizes == 0..2
Limits == {NoLimit} \cup 1..2

\* FileBufferingStreamBuilder: the three sizes build() hands to the stream
Builders ==
    [threshold : Thresholds, produce_block_size : BlockSizes, buffer_limit : Limits]

\* FileBufferingStream::new. buffer is mode/memory/path/file/pos: Memory(BytesMut)
\* uses memory; File(PathBuf, File) uses path, the file's content and the
\* handle's cursor pos. disk is the set of paths this stream created that still
\* exist; uuids counts the Uuid::new_v4 names drawn.
NewStream(inner, bld) ==
    [inner |-> inner, inner_eof |-> FALSE,
     threshold |-> bld.threshold,
     produce_block_size |-> bld.produce_block_size,
     buffer_limit |-> bld.buffer_limit,
     mode |-> "Memory", memory |-> <<>>,
     path |-> 0, file |-> <<>>, pos |-> 0,
     buffer_size |-> 0, produce_index |-> 0,
     disk |-> {}, uuids |-> 0]

\* buffering.rs:141 with <= for <: spills already when the total equals the threshold
SpillNeededAtThreshold(b, bytes) == b.threshold <= Len(b.memory) + Len(bytes)

\* buffering.rs:141  self.threshold < memory.len() + bytes.len()
SpillNeeded(b, bytes) == b.threshold < Len(b.memory) + Len(bytes)

\* the faults the file system can answer one write_to_buffer call with
WriteFaults(b, bytes) ==
    {NoFault}
    \cup (IF b.mode = "Memory" /\ SpillNeeded(b, bytes)
          THEN {Fault("open", 0)}
               \cup (IF Len(b.memory) > 0 THEN {Fault("write_memory", 0)} ELSE {})
               \cup (IF Len(bytes) > 0 THEN {Fault("write_chunk", 0)} ELSE {})
          ELSE {})
    \cup (IF b.mode = "File"
          THEN {Fault("write_chunk", k) : k \in 0..(Len(bytes) - 1)}
          ELSE {})

\* write_to_buffer: [ok, b] is the Result and the stream afterwards
WriteToBuffer(b, bytes, f) ==
    IF b.mode = "Memory"
    THEN IF SpillNeeded(b, bytes)
         THEN LET path == b.uuids + 1
                  named == [b EXCEPT !.uuids = path]
              IN  IF f.point = "open"
                  THEN [ok |-> FALSE, b |-> named]
                  ELSE IF f.point \in {"write_memory", "write_chunk"}
                  THEN [ok |-> FALSE,
                        b |-> [named EXCEPT !.disk = @ \cup {path}]]
                  ELSE [ok |-> TRUE,
                        b |-> [named EXCEPT
                                 !.disk = @ \cup {path},
                                 !.mode = "File",
                                 !.memory = <<>>,
                                 !.path = path,
                                 !.file = b.memory \o bytes,
                                 !.pos = Len(b.memory) + Len(bytes),
                                 !.buffer_size = @ + Len(bytes)]]
         ELSE [ok |-> TRUE,
               b |-> [b EXCEPT !.memory = @ \o bytes,
                               !.buffer_size = @ + Len(bytes)]]
    ELSE IF f.point = "write_chunk"
         THEN [ok |-> FALSE,
               b |-> [b EXCEPT !.file = WriteAt(@, b.pos, SubSeq(bytes, 1, f.k)),
                               !.pos = @ + f.k]]
         ELSE [ok |-> TRUE,
               b |-> [b EXCEPT !.file = WriteAt(@, b.pos, bytes),
                               !.pos = @ + Len(bytes),
                               !.buffer_size = @ + Len(bytes)]]

\* bytes the next read_from_buffer asks the buffer for (buffering.rs:182, 203)
ReadLen(b) ==
    IF b.buffer_size <= b.produce_index + b.produce_block_size
    THEN b.buffer_size - b.produce_index
    ELSE b.produce_block_size

\* the faults the file system can answer one read_from_buffer call with
ReadFaults(b) ==
    {NoFault}
    \cup (IF b.mode = "File" /\ b.produce_index < b.buffer_size
          THEN (IF b.produce_index = 0 THEN {Fault("seek", 0)} ELSE {})
               \cup {Fault("read", k) : k \in 0..(ReadLen(b) - 1)}
          ELSE {})

\* buffering.rs:175  self.produce_index = 0
EndOfPass(b) == [b EXCEPT !.produce_index = 0]

\* buffering.rs:183-190, 204-207: the cursor after the block
AdvanceIndex(b) ==
    [b EXCEPT !.produce_index =
        IF b.buffer_size <= @ + b.produce_block_size
        THEN b.buffer_size ELSE @ + b.produce_block_size]

\* read_from_buffer: [ok, bytes, b]
ReadFromBuffer(b, f) ==
    IF b.buffer_size <= b.produce_index
    THEN [ok |-> TRUE, bytes |-> <<>>, b |-> EndOfPass(b)]
    ELSE IF b.mode = "Memory"
    THEN [ok |-> TRUE,
          bytes |-> SubSeq(b.memory, b.produce_index + 1, b.produce_index + ReadLen(b)),
          b |-> AdvanceIndex(b)]
    ELSE IF f.point = "seek"
    THEN [ok |-> FALSE, bytes |-> <<>>, b |-> b]
    ELSE LET from == IF b.produce_index = 0 THEN 0 ELSE b.pos
             n == ReadLen(b)
             next == AdvanceIndex(b)
         IN  IF f.point = "read"
             THEN [ok |-> FALSE, bytes |-> <<>>,
                   b |-> [next EXCEPT !.pos = Min(from + f.k, Len(b.file))]]
             ELSE IF Len(b.file) < from + n
             THEN \* read_exact: UnexpectedEof
                  [ok |-> FALSE, bytes |-> <<>>,
                   b |-> [next EXCEPT !.pos = Len(b.file)]]
             ELSE [ok |-> TRUE,
                   bytes |-> SubSeq(b.file, from + 1, from + n),
                   b |-> [next EXCEPT !.pos = from + n]]

\* Poll::Ready values of poll_next
PollNone == [t |-> "None", bytes |-> <<>>, e |-> ""]
PollOk(bytes) == [t |-> "Ok", bytes |-> bytes, e |-> ""]
PollErr(e) == [t |-> "Err", bytes |-> <<>>, e |-> e]

\* buffering.rs:343-347
OverLimit(b, bytes) ==
    b.buffer_limit # NoLimit /\ b.buffer_size + Len(bytes) > b.buffer_limit

\* the faults one poll_next call can meet
PollFaults(b) ==
    IF b.inner_eof THEN ReadFaults(b)
    ELSE IF b.inner # <<>> /\ Head(b.inner).ok /\ ~OverLimit(b, Head(b.inner).bytes)
    THEN WriteFaults(b, Head(b.inner).bytes)
    ELSE {NoFault}

\* buffering.rs:352-354 without the assignment: the end of the inner stream is
\* not remembered
InnerEndedUnmarked(b) == b

\* buffering.rs:352-354, 250-252  None => this.inner_eof = true
InnerEnded(b) == [b EXCEPT !.inner_eof = TRUE]

\* <FileBufferingStream as Stream>::poll_next with the inner stream ready:
\* [out, b, ev]; ev names the branch taken
StreamPollNext(b, f) ==
    IF ~b.inner_eof
    THEN IF b.inner = <<>>
         THEN [out |-> PollNone, ev |-> "eof", b |-> InnerEnded(b)]
         ELSE LET item == Head(b.inner)
                  rest == [b EXCEPT !.inner = Tail(@)]
              IN  IF ~item.ok
                  THEN [out |-> PollErr("Inner"), ev |-> "inner_err", b |-> rest]
                  ELSE IF OverLimit(b, item.bytes)
                  THEN [out |-> PollErr("Overflow"), ev |-> "overflow", b |-> rest]
                  ELSE LET w == WriteToBuffer(rest, item.bytes, f)
                       IN  IF w.ok
                           THEN [out |-> PollOk(item.bytes), ev |-> "write", b |-> w.b]
                           ELSE [out |-> PollErr("Io"), ev |-> "write", b |-> w.b]
    ELSE LET r == ReadFromBuffer(b, f)
         IN  IF ~r.ok THEN [out |-> PollErr("Io"), ev |-> "read", b |-> r.b]
             ELSE IF Len(r.bytes) = 0
             THEN [out |-> PollNone, ev |-> "read", b |-> r.b]
             ELSE [out |-> PollOk(r.bytes), ev |-> "read", b |-> r.b]

\* the faults one MessageBody::poll_next call can meet
BodyFaults(b) ==
    IF b.inner_eof THEN ReadFaults(b)
    ELSE IF b.inner # <<>> /\ Head(b.inner).ok
    THEN WriteFaults(b, Head(b.inner).bytes)
    ELSE {NoFault}

\* <FileBufferingStream as MessageBody>::poll_next (buffering.rs:231-267): the
\* test of buffer_limit is commented out at 243-247, every Ok chunk is written
BodyPollNext(b, f) ==
    IF ~b.inner_eof
    THEN IF b.inner = <<>>
         THEN [out |-> PollNone, ev |-> "eof", b |-> InnerEnded(b)]
         ELSE LET item == Head(b.inner)
                  rest == [b EXCEPT !.inner = Tail(@)]
              IN  IF ~item.ok
                  THEN [out |-> PollErr("Inner"), ev |-> "inner_err", b |-> rest]
                  ELSE LET w == WriteToBuffer(rest, item.bytes, f)
                       IN  IF w.ok
                           THEN [out |-> PollOk(item.bytes), ev |-> "write", b |-> w.b]
                           ELSE [out |-> PollErr("Io"), ev |-> "write", b |-> w.b]
    ELSE LET r == ReadFromBuffer(b, f)
         IN  IF ~r.ok THEN [out |-> PollErr("Io"), ev |-> "read", b |-> r.b]
             ELSE IF Len(r.bytes) = 0
             THEN [out |-> PollNone, ev |-> "read", b |-> r.b]
             ELSE [out |-> PollOk(r.bytes), ev |-> "read", b |-> r.b]

\* std::fs::remove_file at buffering.rs:107 can fail; the error is printed
DropFaults(b) ==
    {NoFault} \cup (IF b.mode = "File" THEN {Fault("remove", 0)} ELSE {})

\* Drop::drop (buffering.rs:103-113): the file is removed when buffer is
\* Buffer::File, nothing is done when it is Buffer::Memory. The fields are then
\* dropped: the inner stream, the BytesMut and the file handle are gone, the
\* files left on disk are not.
DropStream(b, f) ==
    [b EXCEPT !.disk = IF b.mode = "File" /\ f.point # "remove"
                       THEN @ \ {b.path} ELSE @,
              !.inner = <<>>, !.memory = <<>>, !.file = <<>>, !.pos = 0,
              !.buffer_size = 0, !.produce_index = 0]

\* ------------------------------------------------------------------ state
VARIABLES
    \* SpecBuf: the stream under test and what its consumer has observed
    fbs,        \* the FileBufferingStream
    api,        \* the trait its consumer polls it through: "Stream", "MessageBody"
    last,       \* the last poll_next call: branch, result, buffer before it
    written,    \* concatenation of the chunks write_to_buffer stored with Ok
    spills,     \* number of Memory -> File changes of buffer so far
    passes,     \* the replay passes completed: [out, clean]
    cur,        \* the replay pass in progress: [out, clean, start]
    \* Spec: one request in verify::Middleware::call
    options,    \* MiddlewareOptions: which of should_verify, error_handler are Some
    req,        \* the ServiceRequest: jws header, marker header, payload
    pc,         \* the suspension point the async block is at
    encoder,    \* the DeserializeJwsWriter
    stream,     \* the payload taken at verify.rs:161
    result,     \* the Result the future resolves to
    obs,        \* what the collaborators saw: calls made and their arguments
    \* SpecTwo: a second request in flight through the same verify middleware
    other,      \* the locals of the future that is not running now
    turn,       \* which of the two requests the running future belongs to
    \* SpecSign: one request in sign::Middleware::call
    sign        \* the locals of the async block, its position and its result

bufvars == <<fbs, api, last, written, spills, passes, cur>>
mwvars == <<options, req, pc, encoder, stream, result, obs, other, turn>>
vars == <<fbs, api, last, written, spills, passes, cur,
          options, req, pc, encoder, stream, result, obs, other, turn, sign>>

DefaultBuilder ==
    [threshold |-> 2, produce_block_size |-> 2,
     buffer_limit |-> NoLimit]

\* a replay pass: the bytes its consumer got so far, whether it met no error,
\* and the cursor its consumer found when it started to read
NoPass == [out |-> <<>>, clean |-> TRUE, start |-> 0]
NoPoll ==
    [ev |-> "none", out |-> PollNone, mode_before |-> "Memory", held |-> 0,
     len |-> 0, size_before |-> 0, index_before |-> 0,
     file_before |-> <<>>, memory_before |-> <<>>, after_eos |-> FALSE]

\* ------------------------------------------------------------------ SpecBuf
BufIdle ==
    /\ fbs = NewStream(<<>>, DefaultBuilder)
    /\ api = "Stream"
    /\ last = NoPoll
    /\ written = <<>>
    /\ spills = 0
    /\ passes = <<>>
    /\ cur = NoPass

\* what the consumer has seen once a poll_next call has returned r
Polled(r) ==
    LET chunk == IF fbs.inner # <<>> THEN Head(fbs.inner).bytes ELSE <<>>
    IN  /\ fbs' = r.b
        /\ last' = [ev |-> r.ev, out |-> r.out, mode_before |-> fbs.mode,
                    held |-> Len(fbs.memory), len |-> Len(chunk),
                    size_before |-> fbs.buffer_size,
                    index_before |-> fbs.produce_index,
                    file_before |-> fbs.file,
                    memory_before |-> fbs.memory,
                    after_eos |-> last.after_eos \/ last.ev = "eof"]
        /\ written' = IF r.ev = "write" /\ r.out.t = "Ok"
                      THEN written \o r.out.bytes ELSE written
        /\ spills' = IF fbs.mode = "Memory" /\ r.b.mode = "File"
                     THEN spills + 1 ELSE spills
        /\ IF r.ev # "read"
           THEN UNCHANGED <<passes, cur>>
           ELSE IF r.out.t = "None"
           THEN passes' = Append(passes, cur) /\ cur' = NoPass
           ELSE IF r.out.t = "Ok"
           THEN cur' = [cur EXCEPT !.out = @ \o r.out.bytes]
                /\ UNCHANGED passes
           ELSE cur' = [cur EXCEPT !.clean = FALSE] /\ UNCHANGED passes

\* a consumer polls the stream once (Stream::poll_next, buffering.rs:334-368)
PollStream ==
    /\ api = "Stream"
    /\ Len(passes) < MaxPasses
    /\ last.ev # "drop"
    /\ \E f \in PollFaults(fbs) : Polled(StreamPollNext(fbs, f))
    /\ UNCHANGED <<api, mwvars, sign>>

\* a consumer polls the stream once as a response body (MessageBody::poll_next,
\* buffering.rs:231-267)
PollBody ==
    /\ api = "MessageBody"
    /\ Len(passes) < MaxPasses
    /\ last.ev # "drop"
    /\ \E f \in BodyFaults(fbs) : Polled(BodyPollNext(fbs, f))
    /\ UNCHANGED <<api, mwvars, sign>>

\* the consumer of a replay pass stops part-way and another consumer starts
\* to read the same stream: no code runs, read_from_buffer resets
\* produce_index only at the end of a pass (buffering.rs:174-177); followed
\* for the first replay pass of a request payload, which the policy, the
\* middleware and the handler read one after the other
HandOver ==
    /\ api = "Stream"
    /\ passes = <<>>
    /\ last.ev # "drop"
    /\ fbs.inner_eof
    /\ fbs.produce_index > 0
    /\ cur.start = 0
    /\ cur' = [NoPass EXCEPT !.start = fbs.produce_index]
    /\ UNCHANGED <<fbs, api, last, written, spills, passes, mwvars, sign>>

\* the owner lets go of the stream, at any point of its life (buffering.rs:103-113)
Teardown ==
    /\ last.ev # "drop"
    /\ \E f \in DropFaults(fbs) :
         /\ fbs' = DropStream(fbs, f)
         /\ last' = [NoPoll EXCEPT
                        !.ev = "drop",
                        !.out = IF f.point = "remove" THEN PollErr("Remove") ELSE PollNone,
                        !.mode_before = fbs.mode]
    /\ UNCHANGED <<api, written, spills, passes, cur, mwvars, sign>>

\* ------------------------------------------------------------------ verify
Keys == {"K1", "K2"}
NoKey == "none"

\* the X-JWS-Signature header: absent, unparseable, or the token that signing
\* body with key produces
NoHeader == [present |-> FALSE, parses |-> FALSE, key |-> NoKey, body |-> <<>>]
BadHeader == [present |-> TRUE, parses |-> FALSE, key |-> NoKey, body |-> <<>>]
Token(key, body) == [present |-> TRUE, parses |-> TRUE, key |-> key, body |-> body]

\* the body with byte 0 changed
Tamper(body) == IF body = <<>> THEN <<0>> ELSE [body EXCEPT ![1] = 0]

PayloadNone == [kind |-> "None", s |-> NewStream(<<>>, DefaultBuilder)]
RawPayload(items) == [kind |-> "Raw", s |-> NewStream(items, DefaultBuilder)]
BufferedPayload(s) == [kind |-> "Buffered", s |-> s]

NoEncoder == [key |-> NoKey, token |-> NoHeader, digest |-> <<>>]
NoResult == [kind |-> "none", e |-> ""]

NoRequest == [jws |-> NoHeader, buffered |-> FALSE, payload |-> PayloadNone]

\* no call of enable_request_buffering on a request it had wrapped before
NoRepeat == "none"

\* nothing observed yet for a request whose raw payload is items
NewObs(items) ==
    [body |-> ConcatOk(items),
     clean |-> \A i \in 1..Len(items) : items[i].ok,
     policy_calls |-> 0, should_verify |-> "undecided", policy_req |-> NoRequest,
     again |-> NoRepeat,
     lookups |-> 0, selector_calls |-> 0, selected |-> "unasked", takes |-> 0,
     fed |-> 0, chunk_error |-> "none", finish |-> "none",
     handler_calls |-> 0, handler_kind |-> "none",
     svc_calls |-> 0, svc_req |-> NoRequest, svc_body |-> <<>>]

\* no second request in flight
NoOther ==
    [req |-> NoRequest, pc |-> "idle", encoder |-> NoEncoder,
     stream |-> PayloadNone, result |-> NoResult, obs |-> NewObs(<<>>)]

MwIdle ==
    /\ options = [should_verify |-> FALSE, error_handler |-> FALSE]
    /\ req = NoRequest
    /\ pc = "idle"
    /\ encoder = NoEncoder
    /\ stream = PayloadNone
    /\ result = NoResult
    /\ obs = NewObs(<<>>)
    /\ other = NoOther
    /\ turn = 1

\* buffering.rs:13-28 without the marker header: the payload is wrapped on
\* every call
EnableWithoutMarker(bld, r) ==
    [r EXCEPT !.payload = BufferedPayload(NewStream(r.payload.s.inner, bld))]

\* enable_request_buffering (buffering.rs:13-28)
EnableRequestBuffering(bld, r) ==
    IF ~r.buffered
    THEN [r EXCEPT !.payload = BufferedPayload(NewStream(r.payload.s.inner, bld)),
                   !.buffered = TRUE]
    ELSE r

\* stream.next().await on a payload: [out, p]. Payload::None ends at once, a raw
\* payload yields its items, a buffering stream is polled (buffering.rs:334)
PayloadFaults(p) == IF p.kind = "Buffered" THEN PollFaults(p.s) ELSE {NoFault}
PayloadNext(p, f) ==
    IF p.kind = "None" THEN [out |-> PollNone, p |-> p]
    ELSE IF p.kind = "Raw"
    THEN IF p.s.inner = <<>> THEN [out |-> PollNone, p |-> p]
         ELSE [out |-> IF Head(p.s.inner).ok THEN PollOk(Head(p.s.inner).bytes)
                       ELSE PollErr("Inner"),
               p |-> [p EXCEPT !.s.inner = Tail(@)]]
    ELSE LET r == StreamPollNext(p.s, f)
         IN  [out |-> r.out, p |-> [p EXCEPT !.s = r.b]]

\* the bytes a consumer gets that reads the payload until its end or an error
RECURSIVE ReadableBody(_)
ReadableBody(p) ==
    LET r == PayloadNext(p, NoFault)
    IN  IF r.out.t = "Ok" THEN r.out.bytes \o ReadableBody(r.p) ELSE <<>>

\* the state of one call: the values of req, pc, encoder, stream, result, obs
Here == [req |-> req, pc |-> pc, encoder |-> encoder, stream |-> stream,
         result |-> result, obs |-> obs]
Become(st) ==
    /\ req' = st.req
    /\ pc' = st.pc
    /\ encoder' = st.encoder
    /\ stream' = st.stream
    /\ result' = st.result
    /\ obs' = st.obs

\* verify.rs:177  svc.call(req): the downstream service gets r
Forward(st, r) ==
    [st EXCEPT !.req = r, !.pc = "service",
               !.obs.svc_calls = @ + 1,
               !.obs.svc_req = r,
               !.obs.svc_body = ReadableBody(r.payload)]

\* verify.rs:143-146 also handing the request on to the service
RejectAndForward(st, r, kind) ==
    Forward([st EXCEPT !.obs.handler_calls = @ + 1, !.obs.handler_kind = kind], r)

\* verify.rs:143-146, 154-157, 169-172: the error handler, else ErrorBadRequest
Reject(st, r, kind) ==
    IF options.error_handler
    THEN [st EXCEPT !.req = r, !.pc = "handler",
                    !.obs.handler_calls = @ + 1,
                    !.obs.handler_kind = kind]
    ELSE [st EXCEPT !.req = r, !.pc = "done",
                    !.result = [kind |-> "BadRequest", e |-> ""]]

\* verify.rs:136 as "verify when the header is there"
VerifyIfHeaderPresent(r) == r.jws.present

\* verify.rs:136  None => (req, true)
DefaultShouldVerify(r) == TRUE

\* verify.rs:144 reporting Other
MissingHeaderAsOther == "Other"

\* verify.rs:144  VerifyErrorType::HeaderNotFound
MissingHeaderKind == "HeaderNotFound"

\* verify.rs:170  VerifyErrorType::Other
FinishErrorKind == "Other"

\* verify.rs:150-159 taking an unparseable header or an unselected verifier
\* for a verifier that accepts anything
NewWriterLenient(jws, sel) ==
    [ok |-> TRUE, called |-> jws.parses,
     enc |-> [key |-> jws.key, token |-> [jws EXCEPT !.body = <<>>], digest |-> <<>>]]

\* DeserializeJwsWriter::new(&jws, selector) (verify.rs:150-151): the header is
\* parsed, then the selector is asked for a verifier; sel is its answer
NewWriter(jws, sel) ==
    IF ~jws.parses THEN [ok |-> FALSE, called |-> FALSE, enc |-> NoEncoder]
    ELSE IF sel = NoKey THEN [ok |-> FALSE, called |-> TRUE, enc |-> NoEncoder]
    ELSE [ok |-> TRUE, called |-> TRUE,
          enc |-> [key |-> sel, token |-> jws, digest |-> <<>>]]

\* encoder.finish() on a verifier that was never fed the bytes written
FinishUnfed(enc) == enc.key = enc.token.key /\ <<>> = enc.token.body

\* encoder.finish() (verify.rs:166): the signature in the header is the one
\* the verifier's key gives for the bytes written
Finish(enc) == enc.key = enc.token.key /\ enc.digest = enc.token.body

\* verify.rs:139-161 with the header lookup and take_payload hoisted above the
\* test of should_verify
AfterDecisionEager(st, r, sv, sel) ==
    LET looked == [st EXCEPT !.obs.lookups = @ + 1, !.obs.takes = @ + 1,
                             !.stream = r.payload]
        taken == [r EXCEPT !.payload = PayloadNone]
    IN  IF ~sv THEN Forward(looked, taken)
        ELSE IF ~r.jws.present THEN Reject(looked, taken, MissingHeaderKind)
        ELSE LET w == NewWriter(r.jws, sel)
                 asked == IF w.called
                          THEN [looked EXCEPT !.obs.selector_calls = @ + 1,
                                              !.obs.selected = sel]
                          ELSE looked
             IN  IF ~w.ok THEN Reject(asked, taken, "Other")
                 ELSE [asked EXCEPT !.req = taken, !.pc = "reading",
                                    !.encoder = w.enc]

\* verify.rs:139-161: from the decision to the first chunk read
AfterDecision(st, r, sv, sel) ==
    IF ~sv THEN Forward(st, r)
    ELSE LET looked == [st EXCEPT !.obs.lookups = @ + 1]
         IN  IF ~r.jws.present THEN Reject(looked, r, MissingHeaderKind)
             ELSE LET w == NewWriter(r.jws, sel)
                      asked == IF w.called
                               THEN [looked EXCEPT !.obs.selector_calls = @ + 1,
                                                   !.obs.selected = sel]
                               ELSE looked
                  IN  IF ~w.ok THEN Reject(asked, r, "Other")
                      ELSE [asked EXCEPT
                              !.req = [r EXCEPT !.payload = PayloadNone],
                              !.pc = "reading",
                              !.encoder = w.enc,
                              !.stream = r.payload,
                              !.obs.takes = @ + 1]

Selections == Keys \cup {NoKey}

\* Middleware::call up to its first suspension point (verify.rs:129-137)
Call ==
    /\ pc = "start"
    /\ IF options.should_verify
       THEN Become([Here EXCEPT !.pc = "policy", !.obs.policy_calls = @ + 1])
       ELSE \E sel \in Selections :
              Become(AfterDecision(
                  [Here EXCEPT !.obs.should_verify =
                      IF DefaultShouldVerify(req) THEN "yes" ELSE "no"],
                  req, DefaultShouldVerify(req), sel))
    /\ UNCHANGED <<options, bufvars, other, turn, sign>>

\* what a should_verify closure may do to the request it is given: nothing,
\* or enable_request_buffering with its builder (examples/main.rs:98-127);
\* with two requests in flight the builder is the default one
PolicyBuilders == IF other = NoOther THEN Builders ELSE {DefaultBuilder}
PolicyRequests(r) ==
    {r} \cup {EnableRequestBuffering(bld, r) : bld \in PolicyBuilders}

\* the policy, or a layer it calls, applies enable_request_buffering to the
\* request it holds (examples/main.rs:98-102); of a call on a request that has
\* been wrapped before it is recorded whether the payload and the headers are
\* the same after it, of a call that returns with the payload not wrapped
\* that it is left raw, and the first such call is the one followed
PolicyEnablesBuffering ==
    /\ pc = "policy"
    /\ obs.again = NoRepeat
    /\ \E bld \in PolicyBuilders :
         LET r == EnableRequestBuffering(bld, req)
         IN  Become([Here EXCEPT
                       !.req = r,
                       !.obs.again = IF r.payload.kind # "Buffered" THEN "raw"
                                     ELSE IF req.payload.kind # "Buffered" THEN @
                                     ELSE IF r = req THEN "same" ELSE "changed"])
    /\ UNCHANGED <<options, bufvars, other, turn, sign>>

\* f(req).await returns (verify.rs:135)
PolicyReturn ==
    /\ pc = "policy"
    /\ \E r \in PolicyRequests(req), sv \in BOOLEAN, sel \in Selections :
         Become(AfterDecision(
             [Here EXCEPT !.obs.should_verify = IF sv THEN "yes" ELSE "no",
                          !.obs.policy_req = r],
             r, sv, sel))
    /\ UNCHANGED <<options, bufvars, other, turn, sign>>

\* verify.rs:163 with the error of the loop handed to the error handler
PropagateThroughHandler(st, e) ==
    Reject([st EXCEPT !.obs.chunk_error = e], st.req, "Other")

\* verify.rs:163  the two `?`: the error of stream.next() or of write_all ends
\* the future
Propagate(st, e) ==
    [st EXCEPT !.pc = "done",
               !.result = [kind |-> "Fatal", e |-> e],
               !.obs.chunk_error = e]

\* one turn of the loop at verify.rs:162-164, and verify.rs:166-177 at its end
ReadChunk ==
    /\ pc = "reading"
    /\ \E f \in PayloadFaults(stream), wfail \in BOOLEAN :
         LET n == PayloadNext(stream, f)
             polled == [Here EXCEPT !.stream = n.p]
         IN  IF n.out.t = "None"
             THEN /\ ~wfail
                  /\ IF Finish(encoder)
                     THEN Become(Forward([polled EXCEPT !.obs.finish = "ok"], req))
                     ELSE Become(Reject([polled EXCEPT !.obs.finish = "mismatch"],
                                        req, FinishErrorKind))
             ELSE IF n.out.t = "Err"
             THEN /\ ~wfail
                  /\ Become(Propagate(polled, n.out.e))
             ELSE IF wfail
             THEN /\ Len(n.out.bytes) > 0
                  /\ Become(Propagate(polled, "WriteDigest"))
             ELSE Become([polled EXCEPT
                            !.encoder.digest = @ \o n.out.bytes,
                            !.obs.fed = @ + 1])
    /\ UNCHANGED <<options, bufvars, other, turn, sign>>

\* the error handler's future resolves (verify.rs:144, 155, 170)
HandlerReturn ==
    /\ pc = "handler"
    /\ Become([Here EXCEPT
                 !.pc = "done",
                 !.result = [kind |-> "HandlerError", e |-> obs.handler_kind]])
    /\ UNCHANGED <<options, bufvars, other, turn, sign>>

\* svc.call(req).await resolves (verify.rs:177)
ServiceReturn ==
    /\ pc = "service"
    /\ \E ok \in BOOLEAN :
         Become([Here EXCEPT
                   !.pc = "done",
                   !.result = IF ok THEN [kind |-> "Response", e |-> ""]
                              ELSE [kind |-> "ServiceError", e |-> ""]])
    /\ UNCHANGED <<options, bufvars, other, turn, sign>>

\* verify.rs:133 with the encoder kept in the middleware, one for all calls:
\* the future that resumes writes into the digest the other one left
ResumedOnSharedEncoder(st, left) == [st EXCEPT !.encoder = left.encoder]

\* verify.rs:133  Box::pin(async move { .. }): req, encoder and stream are
\* locals of the future of one call; a future that resumes finds them as it
\* left them, whatever the future that ran meanwhile (left) did
Resumed(st, left) == st

\* the executor leaves the running future at a suspension point, or after its
\* end, and polls the future of the other request in flight
Switch ==
    /\ other.pc \notin {"idle", "done"}
    /\ Become(Resumed(other, Here))
    /\ other' = Here
    /\ turn' = 3 - turn
    /\ UNCHANGED <<options, bufvars, sign>>

\* ------------------------------------------------------------------ sign
\* a ServiceResponse: the x-jws-signature header and the body
NoResponse == [sig |-> NoHeader, body |-> PayloadNone]

\* what the downstream service answers with: a response whose body stream
\* yields items, or an error
Downstreams ==
    [ok : BOOLEAN, items : ItemSeqs]

\* one call of sign::Middleware::call: the configuration (buffering, signer),
\* the downstream's answer to come, the locals svc_res, writer and stream, and
\* what the collaborators and the caller have seen
NewSign(bld, key, down) ==
    [pc |-> "start",
     buffering |-> bld, signer |-> key, down |-> down,
     svc_res |-> NoResponse, writer |-> NoEncoder, stream |-> PayloadNone,
     result |-> NoResult,
     svc_calls |-> 0, signer_calls |-> 0, writer_calls |-> 0,
     fed |-> <<>>, finish_calls |-> 0, failure |-> "none",
     client_body |-> <<>>]

SignIdle == NewSign(DefaultBuilder, NoKey, [ok |-> FALSE, items |-> <<>>])

\* enable_response_buffering(&buffering, svc_res) (sign.rs:95): the body of the
\* response becomes a FileBufferingStream over it, built by the wrapper
EnableResponseBuffering(bld, res) ==
    [res EXCEPT !.body = BufferedPayload(NewStream(res.body.s.inner, bld))]

\* stream.next().await on a response body (sign.rs:103): the buffering stream
\* is polled as a MessageBody (buffering.rs:231)
ResponseNext(p, f) ==
    IF p.kind # "Buffered" THEN [out |-> PollNone, p |-> p]
    ELSE LET r == BodyPollNext(p.s, f)
         IN  [out |-> r.out, p |-> [p EXCEPT !.s = r.b]]

ResponseFaults(p) == IF p.kind = "Buffered" THEN BodyFaults(p.s) ELSE {NoFault}

\* the bytes the caller gets that reads the response body until its end
RECURSIVE ResponseBytes(_)
ResponseBytes(p) ==
    LET r == ResponseNext(p, NoFault)
    IN  IF r.out.t = "Ok" THEN r.out.bytes \o ResponseBytes(r.p) ELSE <<>>

\* sign.rs:104 putting the chunk in front of what was written before
WriterWritePrepend(w, bytes) == [w EXCEPT !.digest = bytes \o @]

\* writer.write_all(&chunk) (sign.rs:104): the digest takes the bytes in order
WriterWrite(w, bytes) == [w EXCEPT !.digest = @ \o bytes]

\* writer.finish() (sign.rs:107): the token the signer's key gives for the
\* bytes written
WriterFinish(w) == Token(w.key, w.digest)

\* sign.rs:93-107 answering a failure with the response as it is, unsigned
SignFailUnsigned(st, kind, e) ==
    [st EXCEPT !.pc = "done", !.failure = e,
               !.result = [kind |-> "Response", e |-> ""]]

\* sign.rs:93, 100, 104, 107: `?` ends the future with the error
SignFail(st, kind, e) ==
    [st EXCEPT !.pc = "done", !.failure = e,
               !.result = [kind |-> kind, e |-> e]]

\* sign.rs:88  self.service.call(req)
SignCall ==
    /\ sign.pc = "start"
    /\ sign' = [sign EXCEPT !.pc = "service", !.svc_calls = @ + 1]
    /\ UNCHANGED <<bufvars, mwvars>>

\* fut.await resolves; sign.rs:93-102 up to the first chunk read
SignServiceReturn ==
    /\ sign.pc = "service"
    /\ \E new_ok \in BOOLEAN :
         IF ~sign.down.ok
         THEN /\ new_ok
              /\ sign' = SignFail(sign, "ServiceError", "Downstream")
         ELSE LET res == EnableResponseBuffering(
                             sign.buffering,
                             [sig |-> NoHeader, body |-> RawPayload(sign.down.items)])
                  got == [sign EXCEPT !.signer_calls = @ + 1, !.writer_calls = @ + 1,
                                      !.svc_res = res]
              IN  IF ~new_ok
                  THEN sign' = SignFail(got, "InternalError", "NewWriter")
                  ELSE sign' = [got EXCEPT
                                  !.pc = "reading",
                                  !.writer = [key |-> sign.signer, token |-> NoHeader,
                                              digest |-> <<>>],
                                  !.stream = res.body,
                                  !.svc_res.body = PayloadNone]
    /\ UNCHANGED <<bufvars, mwvars>>

\* one turn of the loop at sign.rs:103-105, and sign.rs:107-115 at its end
SignReadChunk ==
    /\ sign.pc = "reading"
    /\ \E f \in ResponseFaults(sign.stream), fail \in BOOLEAN :
         LET n == ResponseNext(sign.stream, f)
             polled == [sign EXCEPT !.stream = n.p]
         IN  IF n.out.t = "None"
             THEN IF fail
                  THEN sign' = SignFail([polled EXCEPT !.finish_calls = @ + 1],
                                        "InternalError", "Finish")
                  ELSE LET res == [sig |-> WriterFinish(sign.writer), body |-> n.p]
                       IN  sign' = [polled EXCEPT
                                      !.pc = "done",
                                      !.finish_calls = @ + 1,
                                      !.svc_res = res,
                                      !.result = [kind |-> "Response", e |-> ""],
                                      !.client_body = ResponseBytes(res.body)]
             ELSE IF n.out.t = "Err"
             THEN /\ ~fail
                  /\ sign' = SignFail(polled, "Fatal", n.out.e)
             ELSE IF fail
             THEN /\ Len(n.out.bytes) > 0
                  /\ sign' = SignFail(polled, "Fatal", "WriteDigest")
             ELSE sign' = [polled EXCEPT
                             !.writer = WriterWrite(@, n.out.bytes),
                             !.fed = Append(@, n.out.bytes)]
    /\ UNCHANGED <<bufvars, mwvars>>

\* ------------------------------------------------------------------ specifications
Headers(body) ==
    {NoHeader, BadHeader}
    \cup {Token(k, b) : k \in Keys, b \in {body, Tamper(body)}}

\* the x-buffered-request header as the sender set it: absent, or present
MarkerSent == BOOLEAN

Init ==
    /\ BufIdle
    /\ sign = SignIdle
    /\ other = NoOther
    /\ turn = 1
    /\ options \in [should_verify : BOOLEAN, error_handler : BOOLEAN]
    /\ \E items \in ItemSeqs :
         /\ req \in {[jws |-> h, buffered |-> m, payload |-> RawPayload(items)] :
                        h \in Headers(ConcatOk(items)), m \in MarkerSent}
         /\ obs = NewObs(items)
    /\ pc = "start"
    /\ encoder = NoEncoder
    /\ stream = PayloadNone
    /\ result = NoResult

Next ==
    \/ Call
    \/ PolicyEnablesBuffering
    \/ PolicyReturn
    \/ ReadChunk
    \/ HandlerReturn
    \/ ServiceReturn

Spec == Init /\ [][Next]_vars

InitBuf ==
    /\ MwIdle
    /\ sign = SignIdle
    /\ fbs \in {NewStream(items, bld) : items \in ItemSeqs, bld \in Builders}
    /\ api \in {"Stream", "MessageBody"}
    /\ last = NoPoll
    /\ written = <<>>
    /\ spills = 0
    /\ passes = <<>>
    /\ cur = NoPass

NextBuf == PollStream \/ PollBody \/ HandOver \/ Teardown

SpecBuf == InitBuf /\ [][NextBuf]_vars

\* the bodies of the two requests in flight: request n carries the bytes
\* 10n+1, 10n+2, cut into chunks
TwoLens == {<<2>>, <<1, 1>>, <<1, -1>>}
BodyBase(n) == 10 * n

\* a request arriving with header h and the raw payload items
Arrived(h, items) ==
    [req |-> [jws |-> h, buffered |-> FALSE, payload |-> RawPayload(items)],
     pc |-> "start", encoder |-> NoEncoder, stream |-> PayloadNone,
     result |-> NoResult, obs |-> NewObs(items)]

Arrivals(n) ==
    {Arrived(h, ItemsFrom(lens, BodyBase(n))) :
        lens \in TwoLens,
        h \in {NoHeader} \cup {Token("K1", b) : b \in {Iota(BodyBase(n), 2),
                                                      Iota(BodyBase(3 - n), 2)}}}

InitTwo ==
    /\ BufIdle
    /\ sign = SignIdle
    /\ options \in [should_verify : BOOLEAN, error_handler : BOOLEAN]
    /\ \E a \in Arrivals(1) :
         /\ req = a.req
         /\ pc = a.pc
         /\ encoder = a.encoder
         /\ stream = a.stream
         /\ result = a.result
         /\ obs = a.obs
    /\ other \in Arrivals(2)
    /\ turn = 1

NextTwo == Next \/ Switch

SpecTwo == InitTwo /\ [][NextTwo]_vars

InitSign ==
    /\ BufIdle
    /\ MwIdle
    /\ sign \in {NewSign(bld, key, down) :
                    bld \in Builders, key \in Keys, down \in Downstreams}

NextSign == SignCall \/ SignServiceReturn \/ SignReadChunk

SpecSign == InitSign /\ [][NextSign]_vars

\* ------------------------------------------------------------------ claims: verify
\* the request carries the token that signing its body with a key gives, the
\* selector answered with a verifier for that key, and verification was asked for
SignedAndSelected ==
    /\ obs.clean
    /\ obs.should_verify = "yes"
    /\ req.jws.parses
    /\ req.jws.body = obs.body
    /\ obs.selected = req.jws.key

Rejection == result.kind \in {"BadRequest", "HandlerError"}
FromService == result.kind \in {"Response", "ServiceError"}

\* C1 as stated: a request whose header signs its body with the selected
\* verifier's key always ends with the downstream service called and the
\* downstream's result returned.
C1_AsStated ==
    (pc = "done" /\ SignedAndSelected) => (obs.svc_calls = 1 /\ FromService)

\* C1 amended: such a request is never rejected (no error handler call, no
\* BadRequest), and unless reading the body or feeding the digest aborted with
\* an I/O or Overflow error, the downstream service is called once and its
\* result is the result returned.
C1_SignedBodyPasses ==
    SignedAndSelected =>
        /\ ~Rejection
        /\ obs.handler_calls = 0
        /\ (pc = "done" /\ result.kind # "Fatal") =>
               (obs.svc_calls = 1 /\ obs.finish = "ok" /\ FromService)

C1_Witness ==
    /\ pc = "done" /\ SignedAndSelected /\ obs.svc_calls = 1
    /\ result.kind = "Response" /\ Len(obs.body) > 1 /\ obs.fed > 1

\* C2 as stated: when the bytes fed to the verifier do not match the header's
\* signature, the failure kind handed to the error handler is
\* IncorrectSignature.
C2_MismatchIsIncorrectSignature ==
    (obs.finish = "mismatch" /\ obs.handler_calls > 0) =>
        obs.handler_kind = "IncorrectSignature"

\* C3: when verification is asked for and the request has no X-JWS-Signature
\* header, the downstream service is never called, a configured error handler
\* is called once with HeaderNotFound and its error is the result; without a
\* handler the result is a BadRequest error.
C3_MissingHeaderRejected ==
    (obs.should_verify = "yes" /\ ~req.jws.present) =>
        /\ obs.svc_calls = 0
        /\ obs.takes = 0
        /\ options.error_handler =>
             /\ obs.handler_calls = 1
             /\ obs.handler_kind = "HeaderNotFound"
             /\ pc \in {"handler", "done"}
             /\ pc = "done" => result = [kind |-> "HandlerError", e |-> "HeaderNotFound"]
        /\ ~options.error_handler =>
             /\ obs.handler_calls = 0
             /\ pc = "done" /\ result.kind = "BadRequest"

C3_Witness ==
    /\ pc = "done" /\ obs.should_verify = "yes" /\ ~req.jws.present
    /\ options.should_verify /\ options.error_handler
    /\ result = [kind |-> "HandlerError", e |-> "HeaderNotFound"]

\* the header is there but unusable: it does not parse, or the selector has no
\* verifier for it
UnusableHeader ==
    /\ obs.should_verify = "yes"
    /\ req.jws.present
    /\ ~req.jws.parses \/ obs.selected = NoKey

\* C4: when the header cannot be parsed or the selector returns none, the
\* request is rejected with kind Other (BadRequest without a handler); the
\* body is not read, no digest is made and the downstream service is never
\* called.
C4_UnusableHeaderRejected ==
    UnusableHeader =>
        /\ obs.svc_calls = 0
        /\ obs.takes = 0 /\ obs.fed = 0 /\ obs.finish = "none"
        /\ options.error_handler =>
             /\ obs.handler_calls = 1
             /\ obs.handler_kind = "Other"
             /\ pc = "done" => result = [kind |-> "HandlerError", e |-> "Other"]
        /\ ~options.error_handler =>
             /\ pc = "done" /\ result.kind = "BadRequest"

C4_Witness ==
    /\ pc = "done" /\ UnusableHeader /\ req.jws.parses /\ obs.selected = NoKey
    /\ result = [kind |-> "HandlerError", e |-> "Other"]

\* verification was asked for and failed at one of its three checks
VerificationFailed ==
    /\ obs.should_verify = "yes"
    /\ \/ ~req.jws.present
       \/ ~req.jws.parses
       \/ obs.selected = NoKey
       \/ obs.finish = "mismatch"

\* C5: the downstream service is called at most once and only after the
\* policy skipped verification or finish() succeeded; once verification has
\* failed the service is never called, and a configured error handler is called
\* exactly once and its error is the result returned.
C5_ServiceOnlyAfterVerification ==
    /\ obs.svc_calls <= 1
    /\ obs.svc_calls = 1 => (obs.should_verify = "no" \/ obs.finish = "ok")
    /\ VerificationFailed =>
         /\ obs.svc_calls = 0
         /\ pc \in {"handler", "done"}
         /\ options.error_handler =>
              /\ obs.handler_calls = 1
              /\ pc = "done" => result = [kind |-> "HandlerError", e |-> obs.handler_kind]
    /\ ~VerificationFailed => obs.handler_calls = 0
    /\ FromService => obs.svc_calls = 1

C5_Witness ==
    /\ pc = "done" /\ obs.finish = "mismatch" /\ obs.fed > 0
    /\ obs.handler_calls = 1 /\ result.kind = "HandlerError"

\* the body fits the buffer limit of the buffering the policy enabled, if any
WithinLimit ==
    \/ obs.svc_req.payload.kind # "Buffered"
    \/ obs.svc_req.payload.s.buffer_limit = NoLimit
    \/ Len(obs.body) <= obs.svc_req.payload.s.buffer_limit

\* C6 as stated: whenever the downstream service is called, the body it can
\* read from the forwarded request is the original inbound body.
C6_DownstreamBodyIntact ==
    (obs.svc_calls = 1 /\ obs.clean /\ WithinLimit) => obs.svc_body = obs.body

\* C7 as stated: with no should_verify policy configured, a request without
\* the header is forwarded to the downstream service, not rejected.
C7_AsStated ==
    (pc = "done" /\ ~options.should_verify /\ ~req.jws.present) =>
        (obs.svc_calls = 1 /\ ~Rejection)

\* C7 amended: with no should_verify policy configured the middleware always
\* verifies, header or not: a request without the header is rejected
\* (HeaderNotFound to the handler, else BadRequest) and never forwarded.
C7_DefaultAlwaysVerifies ==
    (~options.should_verify /\ pc # "start") =>
        /\ obs.should_verify = "yes"
        /\ obs.policy_calls = 0
        /\ obs.lookups = 1
        /\ ~req.jws.present =>
             /\ obs.svc_calls = 0
             /\ IF options.error_handler
                THEN obs.handler_kind = "HeaderNotFound"
                ELSE result.kind = "BadRequest"

C7_Witness ==
    /\ pc = "done" /\ ~options.should_verify /\ ~req.jws.present
    /\ obs.handler_kind = "HeaderNotFound" /\ result.kind = "HandlerError"

\* C8: when the policy returns false the header is not looked up, the payload
\* is not taken or read, neither the selector nor the error handler is called,
\* and the downstream service is called with the request the policy returned.
C8_SkipGoesStraightToService ==
    obs.should_verify = "no" =>
        /\ obs.lookups = 0
        /\ obs.takes = 0 /\ obs.fed = 0 /\ stream = PayloadNone
        /\ obs.selector_calls = 0 /\ encoder = NoEncoder
        /\ obs.handler_calls = 0
        /\ obs.svc_calls = 1
        /\ obs.svc_req = obs.policy_req
        /\ req = obs.policy_req
        /\ pc \in {"service", "done"}
        /\ pc = "done" => FromService

C8_Witness ==
    /\ pc = "done" /\ obs.should_verify = "no" /\ req.jws.present
    /\ req.payload.kind = "Buffered" /\ Len(obs.body) > 0
    /\ obs.svc_body = obs.body

\* C16: a call of enable_request_buffering on a request it has wrapped before
\* changes neither the payload nor the headers of the request.
C16_SecondEnableChangesNothing ==
    /\ obs.again # "changed"
    /\ req.payload.kind = "Buffered" => req.buffered
    /\ (req.payload.kind = "Buffered" /\ pc = "policy") =>
           \A bld \in Builders : EnableRequestBuffering(bld, req) = req

C16_Witness ==
    /\ obs.again = "same" /\ obs.policy_req.payload.kind = "Buffered"
    /\ pc = "done" /\ obs.should_verify = "no"
    /\ Len(obs.body) > 1 /\ obs.svc_body = obs.body

\* the loop at verify.rs:162-164 met an I/O or transport error: from the
\* payload, from the spill file, or from the digest writer
TransportError == obs.chunk_error \in {"Inner", "Io", "WriteDigest"}

\* C19: an I/O or transport error met while reading a chunk or writing it to
\* the digest is the result returned: the error handler is not called and no
\* failure kind is made, finish() is not called and the downstream service is
\* not called.
C19_TransportErrorPropagates ==
    /\ TransportError =>
         /\ pc = "done"
         /\ result = [kind |-> "Fatal", e |-> obs.chunk_error]
         /\ obs.handler_calls = 0 /\ obs.handler_kind = "none"
         /\ obs.finish = "none"
         /\ obs.svc_calls = 0
    /\ (result.kind = "Fatal" /\ result.e # "Overflow") => TransportError

C19_Witness ==
    /\ obs.chunk_error = "Io" /\ options.error_handler /\ obs.fed > 0
    /\ pc = "done" /\ result.kind = "Fatal"

\* C20 as stated: an Overflow error met while the body is read for
\* verification is a rejection: the error handler, when configured, is called
\* and its error is the result; else the result is the BadRequest rejection.
C20_OverflowIsRejection ==
    obs.chunk_error = "Overflow" =>
        /\ Rejection
        /\ options.error_handler => obs.handler_calls = 1

\* C25 as stated: whatever headers the request arrived with, after
\* enable_request_buffering has returned its payload is a buffering stream and
\* the marker header is present.
C25_EnableAlwaysWraps ==
    obs.again # "raw" /\ (obs.again # NoRepeat => req.buffered)

\* the bytes of request n
OwnBytes(n) == {BodyBase(n) + i : i \in 1..2}
BytesOf(q) == {q[i] : i \in 1..Len(q)}
IsPrefix(p, q) == Len(p) <= Len(q) /\ p = SubSeq(q, 1, Len(p))

\* the rejection of a request with the error kind
RejectedAs(st, kind) ==
    /\ st.obs.svc_calls = 0
    /\ IF options.error_handler
       THEN st.result = [kind |-> "HandlerError", e |-> kind]
       ELSE st.result = [kind |-> "BadRequest", e |-> ""]

\* the request was handed to the downstream service, whose answer is the result
ForwardedOn(st) ==
    /\ st.obs.svc_calls = 1
    /\ st.result.kind \in {"Response", "ServiceError"}

\* the outcome of a finished request as its own header, its own body and the
\* answers given to it (the policy's, the selector's, its stream's) determine it
OutcomeAlone(st) ==
    IF st.obs.should_verify = "no" THEN ForwardedOn(st)
    ELSE IF ~st.req.jws.present THEN RejectedAs(st, "HeaderNotFound")
    ELSE IF st.obs.selected = NoKey THEN RejectedAs(st, "Other")
    ELSE IF st.obs.chunk_error # "none"
    THEN st.result = [kind |-> "Fatal", e |-> st.obs.chunk_error]
    ELSE IF st.obs.selected = st.req.jws.key /\ st.obs.body = st.req.jws.body
    THEN ForwardedOn(st)
    ELSE RejectedAs(st, "Other")

\* request n, whose call is at st, is where it would be had it run alone
Isolated(st, n) ==
    /\ BytesOf(st.encoder.digest) \subseteq OwnBytes(n)
    /\ IsPrefix(st.encoder.digest, st.obs.body)
    /\ BytesOf(ReadableBody(st.stream)) \subseteq OwnBytes(n)
    /\ st.pc = "reading" =>
         IsPrefix(st.encoder.digest \o ReadableBody(st.stream), st.obs.body)
    /\ st.encoder # NoEncoder => st.encoder.token = st.req.jws
    /\ st.pc = "done" => OutcomeAlone(st)

\* C23: for any interleaving at the suspension points of two requests in
\* flight through one verify middleware, each request's outcome (forwarded,
\* rejected with kind k, fatal error) is the one its own header, body and
\* answers give, as when it runs alone; the digest and the body stream of a
\* request hold bytes of that request only.
C23_RequestsDoNotInterfere ==
    /\ Isolated(Here, turn)
    /\ Isolated(other, 3 - turn)

C23_Witness ==
    /\ pc = "done" /\ other.pc = "done" /\ turn = 1
    /\ obs.fed > 1 /\ other.obs.fed > 1
    /\ obs.policy_calls = 1
    /\ result.kind = "Response"
    /\ other.result.kind = "BadRequest" /\ other.obs.finish = "mismatch"

\* ------------------------------------------------------------------ claims: buffer
\* the last poll was a write_to_buffer call made in memory-mode
WroteInMemoryMode == last.ev = "write" /\ last.mode_before = "Memory"
OverThreshold == last.held + last.len > fbs.threshold

\* C9 as stated: the buffer changes to file-mode at most once, at the first
\* write for which bytes held + chunk length exceeds the threshold, and never
\* changes back.
C9_AsStated ==
    /\ spills <= 1
    /\ WroteInMemoryMode => (fbs.mode = "File" <=> OverThreshold)
    /\ last.mode_before = "File" => fbs.mode = "File"

\* C9 amended: the buffer changes to file-mode at most once, at the first
\* write that succeeds and for which bytes held + chunk length is strictly
\* greater than the threshold; a write that fails with an I/O error leaves the
\* mode as it was; file-mode is never left.
C9_SpillsOnceAtFirstStoredExcess ==
    /\ spills <= 1
    /\ fbs.mode = "File" <=> spills = 1
    /\ (WroteInMemoryMode /\ last.out.t = "Ok") =>
           (fbs.mode = "File" <=> OverThreshold)
    /\ (last.ev # "write" \/ last.out.t # "Ok") => fbs.mode = last.mode_before
    /\ last.mode_before = "File" => fbs.mode = "File"
    /\ fbs.mode = "Memory" => Len(fbs.memory) <= fbs.threshold

C9_Witness ==
    /\ WroteInMemoryMode /\ last.out.t = "Ok" /\ fbs.mode = "File"
    /\ last.held > 0 /\ last.held <= fbs.threshold

\* C10 as stated: every full replay pass made after the write phase yields
\* the in-order concatenation of all chunks written, in memory-mode and in
\* file-mode, so two consecutive passes yield the same bytes.
C10_ReplayYieldsWritten ==
    \A i \in 1..Len(passes) : passes[i].clean => passes[i].out = written

\* C11 as stated: once the stream has been torn down, at any point of its
\* life and after any write or read error, no temporary file it created still
\* exists (remove_file itself not failing).
C11_NoFileAfterTeardown ==
    (last.ev = "drop" /\ last.out.t # "Err") => fbs.disk = {}

\* C12 as stated: with a buffer limit set the buffered size never exceeds the
\* limit, whichever of the two poll_next implementations is used.
C12_SizeWithinLimit ==
    fbs.buffer_limit # NoLimit => fbs.buffer_size <= fbs.buffer_limit

\* C17: once the inner stream has signalled its end it is not polled again:
\* every later poll is served by read_from_buffer, and the size, the mode and
\* the stored content of the buffer stay as they were.
C17_WriteOnceThenReplay ==
    /\ last.after_eos =>
         /\ last.ev = "read"
         /\ fbs.inner_eof
         /\ fbs.inner = <<>>
         /\ fbs.buffer_size = last.size_before
         /\ fbs.mode = last.mode_before
         /\ fbs.memory = last.memory_before
         /\ fbs.file = last.file_before
    /\ last.ev = "read" => (last.after_eos /\ fbs.inner_eof)
    /\ fbs.inner_eof => fbs.inner = <<>>

C17_Witness ==
    /\ last.after_eos /\ last.ev = "read" /\ last.out.t = "Ok"
    /\ fbs.mode = "File" /\ last.index_before > 0 /\ Len(written) > 1

\* C18 as stated: every chunk a replay pass yields is non-empty and no longer
\* than the produce block size, the cursor never exceeds the buffered length,
\* and the terminal marker is returned only when the cursor has reached the
\* buffered length.
C18_BlocksWithinSize ==
    last.ev = "read" =>
        /\ fbs.produce_index <= fbs.buffer_size
        /\ last.out.t = "Ok" =>
             /\ Len(last.out.bytes) >= 1
             /\ Len(last.out.bytes) <= fbs.produce_block_size
        /\ last.out.t = "None" => last.index_before >= fbs.buffer_size

\* C21 as stated: every consumer that starts to read a replay pass finds the
\* cursor at zero, also when the consumer before it stopped part-way, and so
\* gets the content from its first byte.
C21_FreshPassStartsAtZero ==
    /\ cur.start = 0
    /\ \A i \in 1..Len(passes) : passes[i].start = 0

\* the bytes held in the storage in use
Held == IF fbs.mode = "Memory" THEN Len(fbs.memory) ELSE Len(fbs.file)

\* C22 as stated: buffer_size is the number of bytes held in the storage in
\* use, and a write_to_buffer call that fails changes neither the size, the
\* mode nor the stored content.
C22_SizeIsBytesHeld ==
    /\ fbs.buffer_size = Held
    /\ (last.ev = "write" /\ last.out.t = "Err") =>
           /\ fbs.buffer_size = last.size_before
           /\ fbs.mode = last.mode_before
           /\ fbs.memory = last.memory_before
           /\ fbs.file = last.file_before

\* the bytes a replay pass started now would yield, the file system not failing
RECURSIVE ReplayOf(_)
ReplayOf(b) ==
    LET r == ReadFromBuffer(b, NoFault)
    IN  IF r.ok /\ Len(r.bytes) > 0 THEN r.bytes \o ReplayOf(r.b) ELSE <<>>

\* C24 as stated: at every point the bytes a replay pass would yield are the
\* chunks the first pass yielded as Ok, in order; a chunk answered with an
\* error is not in the buffer.
C24_ReplayIsWhatWasYielded ==
    (last.ev # "drop" /\ fbs.produce_index = 0) => ReplayOf(fbs) = written

\* ------------------------------------------------------------------ claims: sign
\* the chunks the downstream's body yields, in order
RECURSIVE OkChunks(_)
OkChunks(items) ==
    IF items = <<>> THEN <<>>
    ELSE (IF Head(items).ok THEN <<Head(items).bytes>> ELSE <<>>)
             \o OkChunks(Tail(items))

SignedResponse == sign.pc = "done" /\ sign.result.kind = "Response"

\* C13 as stated: the body the caller reads from the response the sign
\* middleware returns is, byte for byte and in order, the body the downstream
\* service produced.
C13_ResponseBodyIntact ==
    SignedResponse => sign.client_body = ConcatOk(sign.down.items)

\* C14: every response the sign middleware returns carries x-jws-signature,
\* and its value is the token the signer gives for all chunks of the
\* downstream's body, fed in their order, each once, before the one finish().
C14_SignatureCoversBody ==
    SignedResponse =>
        /\ sign.svc_res.sig = Token(sign.signer, ConcatOk(sign.down.items))
        /\ sign.fed = OkChunks(sign.down.items)
        /\ sign.finish_calls = 1
        /\ sign.signer_calls = 1 /\ sign.writer_calls = 1

C14_Witness ==
    /\ SignedResponse /\ Len(sign.fed) > 1 /\ Len(sign.writer.digest) > 2
    /\ sign.stream.s.mode = "File"

\* C15: a failure while signing (making the writer, reading a chunk, writing
\* it to the digest, finish) ends the call with an error, and a response is
\* returned only with the x-jws-signature header; when the downstream service
\* fails its error is the result and no signer or writer is made.
C15_FailureIsAnError ==
    /\ sign.failure # "none" =>
         /\ sign.pc = "done"
         /\ sign.result.kind \in {"ServiceError", "InternalError", "Fatal"}
         /\ sign.result.e = sign.failure
    /\ SignedResponse => (sign.svc_res.sig.present /\ sign.failure = "none")
    /\ (sign.pc = "done" /\ ~sign.down.ok) =>
         /\ sign.result = [kind |-> "ServiceError", e |-> "Downstream"]
         /\ sign.signer_calls = 0 /\ sign.writer_calls = 0
         /\ sign.fed = <<>> /\ sign.finish_calls = 0
    /\ sign.failure \in {"NewWriter", "Finish"} => sign.result.kind = "InternalError"

C15_Witness ==
    /\ sign.pc = "done" /\ sign.failure = "Finish" /\ Len(sign.fed) > 0
    /\ sign.result.kind = "InternalError" /\ ~sign.svc_res.sig.present

====
